---------------------------- MODULE Spec2Model ----------------------------
(***************************************************************************)
(* Model of the Voice Scheduling Agent HTTP service                        *)
(* (server/app/main.py, server/app/models.py).                             *)
(*                                                                         *)
(* State: the two process-wide stores token_store and booked_slots, the    *)
(* calendar day of the host clock, and, as history, the last request, its  *)
(* response and the calls its handler made.  One action per route; a       *)
(* handler runs to completion in one step (after `await request.body()`    *)
(* no handler of this model awaits again).                                 *)
(***************************************************************************)
EXTENDS Integers, Sequences, FiniteSets, TLC

VARIABLES
    token_store,     \* main.py:42, the dict of OAuth token records
    booked_slots,    \* main.py:43, the list of booked appointments
    today,           \* datetime.now().date(), as a day number
    request,         \* history: the last request handled
    response,        \* history: the response to it
    calls,           \* history: the calls its handler made, in order
    errors,          \* history: the lines of the ValidationError it raised
    events_created,  \* history: events the calendar provider has created
    last_auth,       \* history: the last of (successful callback, logout)
    logout_streak    \* history: consecutive /auth/logout requests so far

vars == <<token_store, booked_slots, today, request, response, calls, errors,
          events_created, last_auth, logout_streak>>

---------------------------------------------------------------------------
(* Bounds of the model.                                                    *)

\* booked_slots is unbounded in the program; the provider accepts an event
\* only while fewer than MaxBooked are stored.
MaxBooked == 2

\* The host clock runs from day FirstDay up to day MaxDay.
MaxDay == 3

\* At most this many consecutive /auth/logout requests are counted.
MaxStreak == 2

\* The number of requests handled concurrently.
MaxTasks == 3

---------------------------------------------------------------------------
(* JSON / Python values.  Every value is tagged with its Python type.      *)

JNone      == [t |-> "none"]
JStr(s)    == [t |-> "str",  v |-> s]
JNum(n)    == [t |-> "num",  v |-> n]
JDict(f)   == [t |-> "dict", v |-> f]
JList(s)   == [t |-> "list", v |-> s]

EmptyDict  == JDict(<<>>)
EmptyList  == JList(<<>>)

\* Python truthiness: bool(x).
Truthy(x) ==
    CASE x.t = "none" -> FALSE
      [] x.t = "str"  -> x.v # ""
      [] x.t = "num"  -> x.v # 0
      [] x.t = "dict" -> DOMAIN x.v # {}
      [] x.t = "list" -> Len(x.v) > 0

\* Results of a Python expression: a value, or a raised exception.
Val(x)     == [exc |-> "none", val |-> x]
Raise(e)   == [exc |-> e,      val |-> JNone]

\* `k in x`
PyIn(k, x) ==
    CASE x.t = "dict" -> Val(k \in DOMAIN x.v)
      [] x.t = "list" -> Val(FALSE)     \* the modelled lists hold dicts only
      [] OTHER        -> Raise("TypeError")  \* None, numbers (str bodies are not modelled)

\* `x[0]`
PyIndex0(x) ==
    CASE x.t = "list" -> IF Len(x.v) > 0 THEN Val(x.v[1]) ELSE Raise("IndexError")
      [] x.t = "dict" -> Raise("KeyError")
      [] OTHER        -> Raise("TypeError")

\* `x.get(k, default)`
PyGet(x, k, default) ==
    CASE x.t = "dict" -> Val(IF k \in DOMAIN x.v THEN x.v[k] ELSE default)
      [] OTHER        -> Raise("AttributeError")

\* `x.get(k1, {}).get(k2)`
PyGetGet(x, k1, k2) ==
    LET a == PyGet(x, k1, EmptyDict)
    IN  IF a.exc # "none" THEN a ELSE PyGet(a.val, k2, JNone)

---------------------------------------------------------------------------
(* The request body of POST /vapi/tool/book-appointment.                   *)
(* The raw bytes are classified by what raw_body.decode() and json.loads   *)
(* make of them: "bad_utf8" (decode raises), "bad_json" (json.loads        *)
(* raises json.JSONDecodeError) or "json" with the parsed value.           *)

RawBadUtf8   == [kind |-> "bad_utf8", val |-> JNone]
RawBadJson   == [kind |-> "bad_json", val |-> JNone]
RawJson(x)   == [kind |-> "json",     val |-> x]

\* The local variable tool_call_id before its first assignment (line 352).
Unbound == [t |-> "unbound"]

\* State of the extraction: exception raised (or "none") and the value that
\* tool_call_id holds at that point.
IdState(e, id) == [exc |-> e, id |-> id]

\* Lines 353-356: if "message" in body: ... tool_call_list[0].get("id")
IdFromMessage(body) ==
    LET inm == PyIn("message", body)
    IN  IF inm.exc # "none" THEN IdState(inm.exc, JNone)
        ELSE IF ~inm.val THEN IdState("none", JNone)
        ELSE LET tcl == PyGet(body.v["message"], "toolCallList", EmptyList)
             IN  IF tcl.exc # "none" THEN IdState(tcl.exc, JNone)
                 ELSE IF ~Truthy(tcl.val) THEN IdState("none", JNone)
                 ELSE LET first == PyIndex0(tcl.val)
                      IN  IF first.exc # "none" THEN IdState(first.exc, JNone)
                          ELSE LET g == PyGet(first.val, "id", JNone)
                               IN  IF g.exc # "none" THEN IdState(g.exc, JNone)
                                   ELSE IdState("none", g.val)

\* Lines 357-358: if not tool_call_id and "toolCall" in body: ...
IdFromToolCall(body, st) ==
    IF st.exc # "none" \/ Truthy(st.id) THEN st
    ELSE LET inb == PyIn("toolCall", body)
         IN  IF inb.exc # "none" THEN IdState(inb.exc, st.id)
             ELSE IF ~inb.val THEN st
             ELSE LET g == PyGet(body.v["toolCall"], "id", JNone)
                  IN  IF g.exc # "none" THEN IdState(g.exc, st.id)
                      ELSE IdState("none", g.val)

\* Lines 359-360: if not tool_call_id and "toolCallList" in body: ...[0].get("id")
IdFromToolCallList(body, st) ==
    IF st.exc # "none" \/ Truthy(st.id) THEN st
    ELSE LET inb == PyIn("toolCallList", body)
         IN  IF inb.exc # "none" THEN IdState(inb.exc, st.id)
             ELSE IF ~inb.val THEN st
             ELSE LET first == PyIndex0(body.v["toolCallList"])
                  IN  IF first.exc # "none" THEN IdState(first.exc, st.id)
                      ELSE LET g == PyGet(first.val, "id", JNone)
                           IN  IF g.exc # "none" THEN IdState(g.exc, st.id)
                               ELSE IdState("none", g.val)

\* Lines 352-360.
ExtractToolCallId(body) ==
    IdFromToolCallList(body, IdFromToolCall(body, IdFromMessage(body)))

\* Lines 382-385: args from message.toolCallList[0].function.arguments
ArgsFromMessage(body) ==
    LET inm == PyIn("message", body)
    IN  IF inm.exc # "none" THEN inm
        ELSE IF ~inm.val THEN Val(JNone)
        ELSE LET tcl == PyGet(body.v["message"], "toolCallList", EmptyList)
             IN  IF tcl.exc # "none" THEN tcl
                 ELSE IF ~Truthy(tcl.val) THEN Val(JNone)
                 ELSE LET first == PyIndex0(tcl.val)
                      IN  IF first.exc # "none" THEN first
                          ELSE PyGetGet(first.val, "function", "arguments")

\* Lines 386-387
ArgsFromToolCall(body, st) ==
    IF st.exc # "none" \/ Truthy(st.val) THEN st
    ELSE LET inb == PyIn("toolCall", body)
         IN  IF inb.exc # "none" THEN inb
             ELSE IF ~inb.val THEN st
             ELSE PyGetGet(body.v["toolCall"], "function", "arguments")

\* Lines 388-389
ArgsFromToolCallList(body, st) ==
    IF st.exc # "none" \/ Truthy(st.val) THEN st
    ELSE LET inb == PyIn("toolCallList", body)
         IN  IF inb.exc # "none" THEN inb
             ELSE IF ~inb.val THEN st
             ELSE LET first == PyIndex0(body.v["toolCallList"])
                  IN  IF first.exc # "none" THEN first
                      ELSE PyGetGet(first.val, "function", "arguments")

\* Lines 390-391
ArgsFromFunction(body, st) ==
    IF st.exc # "none" \/ Truthy(st.val) THEN st
    ELSE LET inb == PyIn("function", body)
         IN  IF inb.exc # "none" THEN inb
             ELSE IF ~inb.val THEN st
             ELSE PyGet(body.v["function"], "arguments", JNone)

\* Lines 392-393: the flat body is its own arguments
ArgsFromFlat(body, st) ==
    IF st.exc # "none" \/ Truthy(st.val) THEN st
    ELSE LET inn == PyIn("name", body)
         IN  IF inn.exc # "none" THEN inn
             ELSE IF ~inn.val THEN st
             ELSE LET ine == PyIn("email", body)
                  IN  IF ine.exc # "none" THEN ine
                      ELSE IF ine.val THEN Val(body) ELSE st

\* Lines 381-393.
ExtractArgs(body) ==
    ArgsFromFlat(body,
      ArgsFromFunction(body,
        ArgsFromToolCallList(body,
          ArgsFromToolCall(body, ArgsFromMessage(body)))))

---------------------------------------------------------------------------
(* AppointmentDetails (models.py).  The library functions re.match,        *)
(* datetime.strptime, pytz.timezone and the EmailStr check are given by    *)
(* their value on each text of the model's input universe.                 *)

\* config.py:29 and the handler's defaults (main.py:421-423)
DEFAULT_TIMEZONE  == "America/Los_Angeles"
DefaultPurpose    == "Discovery Session"
DefaultDuration   == 60

NameMinLen     == 2
NameMaxLen     == 100
PhoneMinLen    == 5
PhoneMaxLen    == 20
PurposeMaxLen  == 200
DurationMin    == 15
DurationMax    == 480

\* re.match(r"^[\d\s\-\+\(\)]{10,20}$", str(v)) on the modelled phone texts
PhoneRegexMatch(v) == v \in {"+1 (555) 123-4567", "5551234567"}

\* EmailStr on the modelled email texts
EmailWellFormed(v) == v \in {"john@example.com", "jane@example.com"}

\* datetime.strptime(v, "%Y-%m-%d").date(): the day number of the date, or
\* 0 when strptime raises ValueError.  Day 1 is 2026-11-01.
StrpDate(v) ==
    CASE v = "2026-11-01" -> 1
      [] v = "2026-11-02" -> 2
      [] v = "2026-11-03" -> 3
      [] v = "2026-11-04" -> 4
      [] v = "2026-11-05" -> 5
      [] OTHER            -> 0

\* datetime.strptime(v, "%H:%M") succeeds
StrpTimeOk(v) == v \in {"14:00", "09:30"}

\* pytz.timezone(v) succeeds
KnownTimezone(v) == v \in {"America/Los_Angeles", "Asia/Kolkata"}

\* One line of a pydantic ValidationError: the field, the message, the input.
ErrLine(loc, msg, input) == [loc |-> loc, msg |-> msg, input |-> input]

MsgStringType == "Input should be a valid string"

\* str fields: a non-str input fails the type check before any validator runs.
IsStr(x) == x.t = "str"

\* name: str = Field(..., min_length=2, max_length=100)
ValidateName(x) ==
    IF ~IsStr(x) THEN <<ErrLine("name", MsgStringType, "")>>
    ELSE IF Len(x.v) < NameMinLen
         THEN <<ErrLine("name", "String should have at least 2 characters", x.v)>>
    ELSE IF Len(x.v) > NameMaxLen
         THEN <<ErrLine("name", "String should have at most 100 characters", x.v)>>
    ELSE <<>>

\* phone: str | int = Field(..., min_length=5, max_length=20) + validate_phone
\* (str inputs; an int phone is outside the model's input universe)
ValidatePhone(x) ==
    IF Len(x.v) < PhoneMinLen
         THEN <<ErrLine("phone", "Value should have at least 5 items after validation", x.v)>>
    ELSE IF Len(x.v) > PhoneMaxLen
         THEN <<ErrLine("phone", "Value should have at most 20 items after validation", x.v)>>
    ELSE IF ~PhoneRegexMatch(x.v)
         THEN <<ErrLine("phone", "Value error, Invalid phone format", x.v)>>
    ELSE <<>>

\* email: EmailStr
ValidateEmail(x) ==
    IF ~IsStr(x) THEN <<ErrLine("email", MsgStringType, "")>>
    ELSE IF ~EmailWellFormed(x.v)
         THEN <<ErrLine("email", "value is not a valid email address", x.v)>>
    ELSE <<>>

MsgDateFuture == "Date must be in the future"
MsgDateFormat == "Date must be in YYYY-MM-DD format"

\* The try block of validate_date (models.py:39-42): "ok", or the message
\* of the ValueError it raises ("strptime" for strptime's own ValueError).
DateTryBlock(v, now) ==
    IF StrpDate(v) = 0 THEN "strptime"
    ELSE IF StrpDate(v) < now THEN MsgDateFuture
    ELSE "ok"

\* validate_date (models.py:36-44): `except ValueError` catches whatever
\* ValueError the try block raised and raises the format message.
DateValidatorMessage(v, now) ==
    IF DateTryBlock(v, now) = "ok" THEN "ok" ELSE MsgDateFormat

ValidateDate(x, now) ==
    IF ~IsStr(x) THEN <<ErrLine("date", MsgStringType, "")>>
    ELSE IF DateValidatorMessage(x.v, now) # "ok"
         THEN <<ErrLine("date", DateValidatorMessage(x.v, now), x.v)>>
    ELSE <<>>

\* validate_time (models.py:48-54)
ValidateTime(x) ==
    IF ~IsStr(x) THEN <<ErrLine("time", MsgStringType, "")>>
    ELSE IF ~StrpTimeOk(x.v)
         THEN <<ErrLine("time", "Time must be in HH:MM format (24-hour)", x.v)>>
    ELSE <<>>

\* purpose: Optional[str] = Field(default=..., max_length=200)
ValidatePurpose(x) ==
    IF x.t = "none" THEN <<>>
    ELSE IF ~IsStr(x) THEN <<ErrLine("purpose", MsgStringType, "")>>
    ELSE IF Len(x.v) > PurposeMaxLen
         THEN <<ErrLine("purpose", "String should have at most 200 characters", x.v)>>
    ELSE <<>>

\* validate_timezone (models.py:58-64)
ValidateTimezone(x) ==
    IF ~IsStr(x) THEN <<ErrLine("timezone", MsgStringType, "")>>
    ELSE IF ~KnownTimezone(x.v)
         THEN <<ErrLine("timezone", "Invalid timezone", x.v)>>
    ELSE <<>>

\* duration_minutes: str | int = Field(default=30, ge=15, le=480)
\* (int inputs; a str duration is outside the model's input universe)
ValidateDuration(x) ==
    IF x.v < DurationMin
         THEN <<ErrLine("duration_minutes", "Input should be greater than or equal to 15", "")>>
    ELSE IF x.v > DurationMax
         THEN <<ErrLine("duration_minutes", "Input should be less than or equal to 480", "")>>
    ELSE <<>>

\* `args.get(k)` / `args.get(k, default)` on the extracted dict
ArgGet(args, k, default) == IF k \in DOMAIN args.v THEN args.v[k] ELSE default

\* The keyword arguments of AppointmentDetails(...) (main.py:415-424)
ApptInput(args) ==
    [name             |-> ArgGet(args, "name", JNone),
     phone            |-> ArgGet(args, "phone", JNone),
     email            |-> ArgGet(args, "email", JNone),
     date             |-> ArgGet(args, "date", JNone),
     time             |-> ArgGet(args, "time", JNone),
     purpose          |-> ArgGet(args, "purpose", JStr(DefaultPurpose)),
     timezone         |-> ArgGet(args, "timezone", JStr(DEFAULT_TIMEZONE)),
     duration_minutes |-> ArgGet(args, "duration_minutes", JNum(DefaultDuration))]

\* The lines of the ValidationError, in field order; <<>> when the model is
\* constructed.
ValidationErrors(in, now) ==
    ValidateName(in.name) \o ValidatePhone(in.phone) \o ValidateEmail(in.email)
    \o ValidateDate(in.date, now) \o ValidateTime(in.time)
    \o ValidatePurpose(in.purpose) \o ValidateTimezone(in.timezone)
    \o ValidateDuration(in.duration_minutes)

\* The constructed AppointmentDetails.
Appt(in) ==
    [name |-> in.name.v, phone |-> in.phone.v, email |-> in.email.v,
     date |-> in.date.v, time |-> in.time.v,
     purpose |-> IF in.purpose.t = "none" THEN "None" ELSE in.purpose.v,
     timezone |-> in.timezone.v, duration_minutes |-> in.duration_minutes.v]

---------------------------------------------------------------------------
(* Texts of the responses (main.py).  "{}" stands for the interpolated     *)
(* part of an f-string; the interpolated values are the result's args.     *)

MsgTrouble       == "I had trouble reading the booking details. Could you try again?"
MsgInvalidFormat == "Invalid data format. Please try again."
MsgMissing       == "I'm missing {}. Could you provide those?"
MsgBooked        == "Your session is booked! A calendar invite has been sent to {}. We look forward to speaking with you!"
MsgCreateFailed  == "Failed to create calendar event. Please try again."
MsgEmail         == "Invalid email address. Could you double-check your email?"
MsgPhone         == "Invalid phone number. Could you provide a valid phone number?"
MsgDate          == "Invalid date. Please provide a future date."
MsgTime          == "Invalid time format. Please provide a time like 2pm or 14:00."
MsgTimezone      == "Invalid timezone. Defaulting to Pacific Time."
MsgInvalidInput  == "Invalid input: {}"
MsgGeneric       == "Something went wrong on our end. I'll try once more."
MsgNotConnected  == "Google Calendar not connected. Please authenticate first."
MsgPermission    == "Calendar permission denied. Please re-authenticate."
MsgConflict      == "Time slot conflict detected."
MsgCalendarError == "Calendar error: {}"

Result(text, args) == [text |-> text, args |-> args]

\* A 200 response of the tool route: {results: [{toolCallId, result}]}
ToolResponse(id, text, args) ==
    [status |-> 200, toolCallId |-> id, result |-> Result(text, args)]

\* An exception that leaves the handler: the framework answers 500.
InternalServerError == [status |-> 500, detail |-> "Internal Server Error"]

\* What one run of a handler did: its response, the calls it made, and the
\* slots it appended to booked_slots.
Ran(resp, log, slots) == [resp |-> resp, calls |-> log, slots |-> slots, errs |-> <<>>]

\* Reading tool_call_id in an except clause: UnboundLocalError when the
\* variable was never assigned (the exception left the try before line 352).
RespondWithId(id, text, args, log) ==
    IF id = Unbound THEN Ran(InternalServerError, log, <<>>)
    ELSE Ran(ToolResponse(id, text, args), log, <<>>)

\* The keywords of main.py:439-447 that occur in the lower-cased text s.
Mentions(s) ==
    CASE s \in {"email", "value is not a valid email address", "not-an-email"}
             -> {"email"}
      [] s \in {"phone", "Value error, Invalid phone format"} -> {"phone"}
      [] s \in {"date", MsgDateFormat, MsgDateFuture}         -> {"date"}
      [] s \in {"time", "Time must be in HH:MM format (24-hour)"} -> {"time"}
      [] s \in {"timezone", "Invalid timezone"}               -> {"time", "timezone"}
      [] OTHER -> {}

\* `kw in error_msg` for error_msg = str(e).lower()
InErrorMsg(kw, errs) ==
    \E i \in 1..Len(errs) :
        kw \in Mentions(errs[i].loc) \cup Mentions(errs[i].msg) \cup Mentions(errs[i].input)

\* str(e): the fields and messages of the error lines
RECURSIVE ErrorText(_)
ErrorText(errs) ==
    IF errs = <<>> THEN <<>>
    ELSE <<Head(errs).loc, Head(errs).msg>> \o ErrorText(Tail(errs))

\* The message chosen by the except ValueError clause (main.py:438-450)
ValueErrorReply(id, errs, log) ==
    IF InErrorMsg("email", errs)         THEN RespondWithId(id, MsgEmail, <<>>, log)
    ELSE IF InErrorMsg("phone", errs)    THEN RespondWithId(id, MsgPhone, <<>>, log)
    ELSE IF InErrorMsg("date", errs)     THEN RespondWithId(id, MsgDate, <<>>, log)
    ELSE IF InErrorMsg("time", errs)     THEN RespondWithId(id, MsgTime, <<>>, log)
    ELSE IF InErrorMsg("timezone", errs) THEN RespondWithId(id, MsgTimezone, <<>>, log)
    ELSE RespondWithId(id, MsgInvalidInput, ErrorText(errs), log)

\* except ValueError (main.py:436-452)
ExceptValueError(id, errs, log) ==
    [ValueErrorReply(id, errs, log) EXCEPT !.errs = errs]

\* Mutant: there is no clause for HTTPException; the catch-all answers.
ExceptHTTPException_CatchAll(id, text, args, log) == RespondWithId(id, MsgGeneric, <<>>, log)

\* except HTTPException (main.py:454-456)
ExceptHTTPException(id, text, args, log) == RespondWithId(id, text, args, log)

\* except Exception (main.py:458-460)
ExceptException(id, log) == RespondWithId(id, MsgGeneric, <<>>, log)

---------------------------------------------------------------------------
(* The calendar provider.                                                  *)

\* Outcome of service.events().insert(...).execute():
\*   created    the event exists, with an id and a link
\*   HttpError  googleapiclient.errors.HttpError; has403 / has409 say
\*              whether str(e) contains "403" / "409"
\*   Other      any other exception (transport, token refresh)
Created(id)            == [kind |-> "created", id |-> id, has403 |-> FALSE, has409 |-> FALSE]
HttpError(h403, h409)  == [kind |-> "HttpError", id |-> 0, has403 |-> h403, has409 |-> h409]
OtherError             == [kind |-> "Other", id |-> 0, has403 |-> FALSE, has409 |-> FALSE]
NotCalled              == [kind |-> "not_called", id |-> 0, has403 |-> FALSE, has409 |-> FALSE]

\* created.get("htmlLink")
EventLink(id) == <<"https://www.google.com/calendar/event?eid=", id>>

\* Mutant: the slot's email is filled from the name.
BookedSlot_EmailFromName(appt, created, now) ==
    [event_id   |-> created.id,
     name       |-> appt.name,
     email      |-> appt.name,
     phone      |-> appt.phone,
     date       |-> appt.date,
     time       |-> appt.time,
     purpose    |-> appt.purpose,
     event_link |-> <<"https://www.google.com/calendar/event?eid=", created.id>>,
     created_at |-> now]

\* The dict appended to booked_slots (main.py:145-155)
BookedSlot(appt, created, now) ==
    [event_id   |-> created.id,
     name       |-> appt.name,
     email      |-> appt.email,
     phone      |-> appt.phone,
     date       |-> appt.date,
     time       |-> appt.time,
     purpose    |-> appt.purpose,
     event_link |-> EventLink(created.id),
     created_at |-> now]

\* Mutant: the check of token_store is left out.
HasCredential_Unchecked(store) == TRUE

\* get_calendar_service (main.py:63-67): TRUE when it returns a service
HasCredential(store) == "default" \in DOMAIN store

\* Mutant: "409" is looked for before "403".
HttpErrorResult_409First(outcome) ==
    IF outcome.has409 THEN MsgConflict
    ELSE IF outcome.has403 THEN MsgPermission
    ELSE "raise"

\* The except clause of create_google_calendar_event (main.py:165-172):
\* the structured failure it returns, or "raise" for the HTTPException(500).
HttpErrorResult(outcome) ==
    IF outcome.has403 THEN MsgPermission
    ELSE IF outcome.has409 THEN MsgConflict
    ELSE "raise"

\* create_google_calendar_event (main.py:71-172).  kind is "return" with the
\* returned dict's success/error, or "raise" with the exception's class.
CreateGoogleCalendarEvent(appt, store, now, outcome) ==
    IF ~HasCredential(store)
    THEN [kind |-> "raise", exc |-> "HTTPException", success |-> FALSE,
          error |-> MsgNotConnected, log |-> <<"get_calendar_service">>, slots |-> <<>>]
    ELSE LET log == <<"get_calendar_service", "events.insert">>
         IN  CASE outcome.kind = "created" ->
                    [kind |-> "return", exc |-> "", success |-> TRUE, error |-> "",
                     log |-> log, slots |-> <<BookedSlot(appt, outcome, now)>>]
               [] outcome.kind = "HttpError" ->
                    IF HttpErrorResult(outcome) = "raise"
                    THEN [kind |-> "raise", exc |-> "HTTPException", success |-> FALSE,
                          error |-> MsgCalendarError, log |-> log, slots |-> <<>>]
                    ELSE [kind |-> "return", exc |-> "", success |-> FALSE,
                          error |-> HttpErrorResult(outcome), log |-> log, slots |-> <<>>]
               [] OTHER ->
                    [kind |-> "raise", exc |-> "Exception", success |-> FALSE,
                     error |-> "", log |-> log, slots |-> <<>>]

---------------------------------------------------------------------------
(* POST /vapi/tool/book-appointment (main.py:343-460).                     *)

RequiredFields == <<"name", "phone", "email", "date", "time">>

\* Dict literals of the modelled argument texts.
ArgsJohn ==
    JDict([name |-> JStr("John Doe"), phone |-> JStr("+1 (555) 123-4567"),
           email |-> JStr("john@example.com"), date |-> JStr("2026-11-03"),
           time |-> JStr("14:00")])

ArgsJane ==
    JDict([name |-> JStr("Jane Roe"), phone |-> JStr("5551234567"),
           email |-> JStr("jane@example.com"), date |-> JStr("2026-11-02"),
           time |-> JStr("09:30"), purpose |-> JStr("AI Strategy"),
           timezone |-> JStr("Asia/Kolkata"), duration_minutes |-> JNum(30)])

TextJohn    == "{\"name\": \"John Doe\", \"phone\": \"+1 (555) 123-4567\", \"email\": \"john@example.com\", \"date\": \"2026-11-03\", \"time\": \"14:00\"}"
TextNoPhone == "{\"name\": \"John Doe\", \"email\": \"john@example.com\", \"date\": \"2026-11-03\", \"time\": \"14:00\"}"
TextEmpty   == "{}"
TextList    == "[]"
TextCut     == "{\"name\": \"John Doe\", \"pho"
TextProse   == "book John tomorrow at 2pm"

\* json.loads(text) on the modelled argument texts (main.py:402).
JsonLoads(text) ==
    CASE text = TextJohn    -> Val(ArgsJohn)
      [] text = TextNoPhone -> Val(JDict([name |-> JStr("John Doe"),
                                          email |-> JStr("john@example.com"),
                                          date |-> JStr("2026-11-03"),
                                          time |-> JStr("14:00")]))
      [] text = TextEmpty   -> Val(EmptyDict)
      [] text = TextList    -> Val(EmptyList)
      [] OTHER              -> Raise("JSONDecodeError")

\* Mutant: `f not in args` in place of `not args.get(f)`.
MissingFields_KeyOnly(args) ==
    SelectSeq(RequiredFields, LAMBDA f : f \notin DOMAIN args.v)

\* missing = [f for f in [...] if not args.get(f)] (main.py:410)
MissingFields(args) ==
    SelectSeq(RequiredFields, LAMBDA f : ~Truthy(ArgGet(args, f, JNone)))

\* Mutant: the calendar event is created before AppointmentDetails is built.
BookWithArgs_CalendarFirst(id, args, store, now, outcome) ==
    IF MissingFields(args) # <<>>
    THEN Ran(ToolResponse(id, MsgMissing, MissingFields(args)), <<>>, <<>>)
    ELSE LET in   == ApptInput(args)
             errs == ValidationErrors(in, now)
             r    == CreateGoogleCalendarEvent(Appt(in), store, now, outcome)
             log  == r.log \o <<"AppointmentDetails">>
         IN  CASE r.kind = "raise" /\ r.exc = "HTTPException" ->
                    ExceptHTTPException(id, r.error, <<>>, log)
               [] r.kind = "raise" ->
                    ExceptException(id, log)
               [] errs # <<>> ->
                    [ExceptValueError(id, errs, log) EXCEPT !.slots = r.slots]
               [] ~r.success ->
                    Ran(ToolResponse(id, r.error, <<>>), log, <<>>)
               [] OTHER ->
                    Ran(ToolResponse(id, MsgBooked, <<Appt(in).email>>), log, r.slots)

\* Lines 409-434, with args a dict.
BookWithArgs(id, args, store, now, outcome) ==
    IF MissingFields(args) # <<>>
    THEN Ran(ToolResponse(id, MsgMissing, MissingFields(args)), <<>>, <<>>)
    ELSE LET in   == ApptInput(args)
             errs == ValidationErrors(in, now)
             ctor == <<"AppointmentDetails">>
         IN  IF errs # <<>> THEN ExceptValueError(id, errs, ctor)
             ELSE LET r == CreateGoogleCalendarEvent(Appt(in), store, now, outcome)
                      log == ctor \o r.log
                  IN  CASE r.kind = "raise" /\ r.exc = "HTTPException" ->
                             ExceptHTTPException(id, r.error, <<>>, log)
                        [] r.kind = "raise" ->
                             ExceptException(id, log)
                        [] ~r.success ->
                             Ran(ToolResponse(id, r.error, <<>>), log, <<>>)
                        [] OTHER ->
                             Ran(ToolResponse(id, MsgBooked, <<Appt(in).email>>), log, r.slots)

\* Lines 395-407, with the extracted args.
BookWithExtracted(id, extracted, store, now, outcome) ==
    IF ~Truthy(extracted)
    THEN Ran(ToolResponse(id, MsgTrouble, <<>>), <<>>, <<>>)
    ELSE LET parsed == IF extracted.t = "str" THEN JsonLoads(extracted.v)
                       ELSE Val(extracted)
         IN  IF parsed.exc # "none"
             THEN Ran(ToolResponse(id, MsgInvalidFormat, <<>>), <<>>, <<>>)
             ELSE IF parsed.val.t # "dict"
             THEN ExceptException(id, <<>>)         \* args.get: AttributeError
             ELSE BookWithArgs(id, parsed.val, store, now, outcome)

\* The handler.
book_appointment_tool(raw, store, now, outcome) ==
    IF raw.kind = "bad_utf8"
    THEN Ran(InternalServerError, <<>>, <<>>)       \* line 346, outside the try
    ELSE IF raw.kind = "bad_json"
    THEN ExceptValueError(Unbound, <<ErrLine("", "Expecting value", "")>>, <<>>)
    ELSE LET ids == ExtractToolCallId(raw.val)
         IN  IF ids.exc # "none" THEN ExceptException(ids.id, <<>>)
             ELSE LET a == ExtractArgs(raw.val)
                  IN  IF a.exc # "none" THEN ExceptException(ids.id, <<>>)
                      ELSE BookWithExtracted(ids.id, a.val, store, now, outcome)

---------------------------------------------------------------------------
(* The requests the voice platform and the frontend send.                  *)

\* Marks a key left out of a dict literal (not a Python value).
Absent == [t |-> "absent"]

\* The dict with the given <<key, value>> pairs, without the Absent ones.
MkDict(pairs) ==
    LET present == {i \in 1..Len(pairs) : pairs[i][2] # Absent}
        keys    == {pairs[i][1] : i \in present}
    IN  JDict([k \in keys |-> pairs[CHOOSE i \in present : pairs[i][1] = k][2]])

\* {"arguments": args}
FunctionObj(args) == MkDict(<<<<"arguments", args>>>>)

\* {"id": id, "function": fn}
ToolCallObj(id, fn) == MkDict(<<<<"id", id>>, <<"function", fn>>>>)

\* The five shapes of the envelope.
InMessage(tc)      == JDict([message |-> JDict([toolCallList |-> JList(<<tc>>)])])
InToolCall(tc)     == JDict([toolCall |-> tc])
InToolCallList(tc) == JDict([toolCallList |-> JList(<<tc>>)])
InFunction(fn)     == JDict([function |-> fn])

\* d with the fields of `gone` left out (form "absent") or set to "" (form "empty")
Without(d, gone, form) ==
    IF form = "absent"
    THEN JDict([k \in DOMAIN d.v \ gone |-> d.v[k]])
    ELSE JDict([k \in DOMAIN d.v |-> IF k \in gone THEN JStr("") ELSE d.v[k]])

\* d with field k set to x
With(d, k, x) == JDict([j \in DOMAIN d.v \cup {k} |-> IF j = k THEN x ELSE d.v[j]])

RequiredSet == {RequiredFields[i] : i \in 1..Len(RequiredFields)}

\* Argument dicts that lack any set of the required fields.
ArgsLacking ==
    {Without(ArgsJohn, gone, form) :
        gone \in SUBSET RequiredSet, form \in {"absent", "empty"}}

\* Argument dicts with every required field present and one or two fields
\* that AppointmentDetails rejects.
ArgsRejected ==
    { With(ArgsJohn, "name", JStr("J")),
      With(ArgsJohn, "phone", JStr("12345")),
      With(ArgsJohn, "phone", JStr("123")),
      With(ArgsJohn, "email", JStr("not-an-email")),
      With(ArgsJohn, "date", JStr("2026-11-01")),
      With(ArgsJohn, "date", JStr("tomorrow")),
      With(ArgsJohn, "time", JStr("2pm")),
      With(ArgsJohn, "timezone", JStr("Mars/Phobos")),
      With(ArgsJohn, "duration_minutes", JNum(5)),
      With(ArgsJohn, "duration_minutes", JNum(600)),
      With(With(ArgsJohn, "date", JStr("tomorrow")), "time", JStr("2pm")),
      With(With(ArgsJohn, "phone", JStr("12345")), "timezone", JStr("Mars/Phobos")) }

\* Values of the "arguments" key.
ArgValues ==
    ArgsLacking \cup ArgsRejected
    \cup { ArgsJohn, ArgsJane, Absent, JNone, EmptyDict, EmptyList, JStr(""), JNum(7),
           JStr(TextJohn), JStr(TextNoPhone), JStr(TextEmpty), JStr(TextList),
           JStr(TextCut), JStr(TextProse) }

\* A few of them, for the less usual envelopes.
FewArgValues ==
    { ArgsJohn, Without(ArgsJohn, {"phone"}, "absent"), Absent, EmptyDict,
      JStr(TextJohn), JStr(TextCut) }

\* Bodies with one envelope.
SingleEnvelopeBodies ==
    {InMessage(ToolCallObj(JStr("call_1"), FunctionObj(a))) : a \in ArgValues}
    \cup {InMessage(ToolCallObj(Absent, FunctionObj(a))) : a \in FewArgValues}
    \cup {InToolCall(ToolCallObj(id, FunctionObj(a))) :
            id \in {Absent, JStr("call_1")}, a \in FewArgValues}
    \cup {InToolCallList(ToolCallObj(id, FunctionObj(a))) :
            id \in {Absent, JStr("call_1")}, a \in FewArgValues}
    \cup {InFunction(FunctionObj(a)) : a \in FewArgValues}
    \cup {ArgsJohn, ArgsJane, Without(ArgsJohn, {"phone"}, "absent"),
          Without(ArgsJohn, {"phone", "date"}, "empty"),
          With(ArgsJohn, "email", JStr("not-an-email"))}

\* Bodies whose containers are there and hold no arguments.
EmptyContainerBodies ==
    { EmptyDict,
      JDict([message |-> EmptyDict]),
      JDict([message |-> JDict([toolCallList |-> EmptyList])]),
      InMessage(EmptyDict),
      InMessage(ToolCallObj(JStr("call_1"), Absent)),
      InMessage(ToolCallObj(JStr("call_1"), EmptyDict)),
      InToolCall(EmptyDict),
      InToolCall(ToolCallObj(JStr("call_1"), Absent)),
      InToolCall(ToolCallObj(JStr("call_1"), EmptyDict)),
      JDict([toolCallList |-> EmptyList]),
      InToolCallList(EmptyDict),
      InToolCallList(ToolCallObj(JStr("call_1"), Absent)),
      InFunction(EmptyDict),
      JDict([name |-> JStr("John Doe")]),
      JDict([message |-> JDict([toolCallList |-> EmptyList]), toolCallList |-> EmptyList]),
      JDict([message |-> JDict([toolCallList |-> JList(<<ToolCallObj(JStr("call_1"), Absent)>>)]),
             toolCallList |-> EmptyList]) }

\* Bodies that carry two envelopes.
TwoEnvelopeBodies ==
    { JDict([message  |-> JDict([toolCallList |-> JList(<<ToolCallObj(JStr("call_1"), Absent)>>)]),
             toolCall |-> ToolCallObj(JStr("call_2"), FunctionObj(ArgsJohn))]),
      JDict([message  |-> JDict([toolCallList |-> JList(<<ToolCallObj(Absent, FunctionObj(ArgsJohn))>>)]),
             toolCall |-> ToolCallObj(JStr("call_2"), FunctionObj(ArgsJane))]),
      JDict([toolCall     |-> ToolCallObj(JStr("call_1"), FunctionObj(ArgsJohn)),
             toolCallList |-> JList(<<ToolCallObj(JStr("call_2"), FunctionObj(ArgsJane))>>)]),
      JDict([message  |-> JDict([toolCallList |-> JList(<<ToolCallObj(JStr("call_1"), FunctionObj(ArgsJohn))>>)]),
             toolCall |-> ToolCallObj(JStr("call_2"), FunctionObj(ArgsJane))]) }

\* JSON bodies that are not the dicts the handler expects.
OddBodies ==
    { JNone, EmptyList, JNum(5),
      JDict([message |-> JNone]),
      JDict([toolCall |-> JNum(5)]),
      JDict([message |-> JDict([toolCallList |-> JList(<<JNone>>)])]),
      InToolCall(ToolCallObj(JStr("call_1"), JNone)) }

RawBodies ==
    {RawBadUtf8, RawBadJson}
    \cup {RawJson(b) : b \in SingleEnvelopeBodies \cup EmptyContainerBodies
                             \cup TwoEnvelopeBodies \cup OddBodies}

\* The bodies sent to the running service: every kind of body of RawBodies,
\* with fewer argument dicts.
ServiceBodies ==
    {RawBadUtf8, RawBadJson}
    \cup {RawJson(b) : b \in
           { InMessage(ToolCallObj(JStr("call_1"), FunctionObj(ArgsJohn))),
             InMessage(ToolCallObj(JStr("call_2"), FunctionObj(ArgsJane))),
             InMessage(ToolCallObj(Absent, FunctionObj(ArgsJohn))),
             InToolCall(ToolCallObj(JStr("call_1"), FunctionObj(JStr(TextJohn)))),
             InToolCallList(ToolCallObj(JStr("call_1"), FunctionObj(ArgsJane))),
             InFunction(FunctionObj(ArgsJohn)),
             ArgsJane,
             InMessage(ToolCallObj(JStr("call_1"), FunctionObj(JStr(TextCut)))),
             InMessage(ToolCallObj(JStr("call_1"),
                 FunctionObj(Without(ArgsJohn, {"phone"}, "absent")))),
             InMessage(ToolCallObj(JStr("call_1"),
                 FunctionObj(Without(ArgsJane, {"email", "time"}, "empty")))),
             InMessage(ToolCallObj(JStr("call_1"),
                 FunctionObj(With(ArgsJohn, "date", JStr("2026-11-01"))))),
             InMessage(ToolCallObj(JStr("call_1"),
                 FunctionObj(With(ArgsJohn, "date", JStr("tomorrow"))))),
             InMessage(ToolCallObj(JStr("call_1"),
                 FunctionObj(With(ArgsJohn, "email", JStr("not-an-email"))))),
             InMessage(ToolCallObj(JStr("call_1"),
                 FunctionObj(With(ArgsJohn, "timezone", JStr("Mars/Phobos"))))),
             InMessage(ToolCallObj(JStr("call_1"),
                 FunctionObj(With(ArgsJohn, "name", JStr("J"))))),
             InMessage(ToolCallObj(JStr("call_1"), Absent)),
             EmptyDict,
             JDict([toolCallList |-> EmptyList]),
             JNone,
             JDict([message  |-> JDict([toolCallList |-> JList(<<ToolCallObj(JStr("call_1"), Absent)>>)]),
                    toolCall |-> ToolCallObj(JStr("call_2"), FunctionObj(ArgsJohn))]) }}

\* Credentials that flow.fetch_token can yield.
Tokens == {"ya29.A", "ya29.B"}

\* token_store["default"] (main.py:213-220)
TokenRecord(tok) ==
    [token         |-> tok,
     refresh_token |-> "1//refresh",
     token_uri     |-> "https://oauth2.googleapis.com/token",
     client_id     |-> "GOOGLE_CLIENT_ID",
     client_secret |-> "GOOGLE_CLIENT_SECRET",
     scopes        |-> <<"https://www.googleapis.com/auth/calendar">>]

\* Outcome of the code exchange in /auth/callback: the token, a failing
\* fetch_token, or credentials without scopes (list(None) raises).
Exchanges ==
    {[kind |-> "ok", token |-> tok] : tok \in Tokens}
    \cup {[kind |-> "fetch_error", token |-> ""], [kind |-> "no_scopes", token |-> ""]}

---------------------------------------------------------------------------
(* The service.                                                            *)

\* The day the process starts on.
FirstDay == StrpDate("2026-11-02")

RedirectStatus == 307

Range(seq) == {seq[i] : i \in 1..Len(seq)}

\* token_store = {} and booked_slots = [] (main.py:42-43)
Init ==
    /\ token_store    = <<>>
    /\ booked_slots   = <<>>
    /\ today          = FirstDay
    /\ request        = [route |-> "start"]
    /\ response       = [status |-> 0]
    /\ calls          = <<>>
    /\ errors         = <<>>
    /\ events_created = 0
    /\ last_auth      = "none"
    /\ logout_streak  = 0

\* What the provider can answer to the insert of this request: nothing when
\* the handler does not reach the insert.
ProviderOutcomes(raw) ==
    IF "events.insert" \in Range(book_appointment_tool(raw, token_store, today, NotCalled).calls)
    THEN {HttpError(TRUE, FALSE), HttpError(FALSE, TRUE), HttpError(TRUE, TRUE),
          HttpError(FALSE, FALSE), OtherError}
         \cup (IF Len(booked_slots) < MaxBooked
               THEN {Created(events_created + 1)} ELSE {})
    ELSE {NotCalled}

\* Mutant: booked_slots.insert(0, ...) in place of append.
Appended_AtFront(slots, new) == new \o slots

\* booked_slots.append(...) (main.py:145)
Appended(slots, new) == slots \o new

\* One request to the tool route, with body raw.
BookRequest(raw) ==
    \E outcome \in ProviderOutcomes(raw) :
        LET r == book_appointment_tool(raw, token_store, today, outcome)
        IN  /\ booked_slots'   = Appended(booked_slots, r.slots)
            /\ request'        = [route |-> "book", raw |-> raw, outcome |-> outcome]
            /\ response'       = r.resp
            /\ calls'          = r.calls
            /\ errors'         = r.errs
            /\ events_created' = IF outcome.kind = "created"
                                 THEN events_created + 1 ELSE events_created
            /\ logout_streak'  = 0
            /\ UNCHANGED <<token_store, today, last_auth>>

\* POST /vapi/tool/book-appointment
BookAppointment == \E raw \in ServiceBodies : BookRequest(raw)

\* Mutant: the old record is dropped before the exchange is tried.
CallbackStore_ClearFirst(store, exchange) ==
    IF exchange.kind = "ok"
    THEN [k \in {"default"} |-> TokenRecord(exchange.token)]
    ELSE <<>>

\* google_callback (main.py:207-225): the store after the handler
CallbackStore(store, exchange) ==
    IF exchange.kind = "ok"
    THEN [k \in {"default"} |-> TokenRecord(exchange.token)]
    ELSE store

\* google_callback: the response
CallbackResponse(exchange) ==
    IF exchange.kind = "ok"
    THEN [status |-> RedirectStatus, location |-> "FRONTEND_URL"]
    ELSE [status |-> 400, detail |-> exchange.kind]

\* GET /auth/callback?code=...
GoogleCallback ==
    \E exchange \in Exchanges :
        /\ token_store'   = CallbackStore(token_store, exchange)
        /\ request'       = [route |-> "callback", exchange |-> exchange]
        /\ response'      = CallbackResponse(exchange)
        /\ calls'         = <<"fetch_token">>
        /\ errors'        = <<>>
        /\ last_auth'     = IF exchange.kind = "ok" THEN "callback" ELSE last_auth
        /\ logout_streak' = 0
        /\ UNCHANGED <<booked_slots, today, events_created>>

\* auth_status (main.py:228-230)
AuthStatusResponse(store) ==
    [status |-> 200, authenticated |-> "default" \in DOMAIN store]

\* GET /auth/status
AuthStatus ==
    /\ request'       = [route |-> "status"]
    /\ response'      = AuthStatusResponse(token_store)
    /\ calls'         = <<>>
    /\ errors'        = <<>>
    /\ logout_streak' = 0
    /\ UNCHANGED <<token_store, booked_slots, today, events_created, last_auth>>

LogoutResponse ==
    [status |-> 200, success |-> TRUE, message |-> "Logged out successfully"]

\* Mutant: `del token_store["default"]` without the membership test.
logout_UnguardedDel(store) ==
    IF "default" \in DOMAIN store
    THEN [store |-> [k \in DOMAIN store \ {"default"} |-> store[k]],
          resp  |-> LogoutResponse]
    ELSE [store |-> store, resp |-> InternalServerError]

\* logout (main.py:479-483): the store after the handler, and the response
logout(store) ==
    IF "default" \in DOMAIN store
    THEN [store |-> [k \in DOMAIN store \ {"default"} |-> store[k]],
          resp  |-> LogoutResponse]
    ELSE [store |-> store, resp |-> LogoutResponse]

\* POST /auth/logout
Logout ==
    /\ token_store'   = logout(token_store).store
    /\ request'       = [route |-> "logout"]
    /\ response'      = logout(token_store).resp
    /\ calls'         = <<>>
    /\ errors'        = <<>>
    /\ last_auth'     = "logout"
    /\ logout_streak' = IF logout_streak < MaxStreak THEN logout_streak + 1
                        ELSE logout_streak
    /\ UNCHANGED <<booked_slots, today, events_created>>

\* list_appointments (main.py:486-489)
ListAppointmentsResponse(slots) ==
    [status |-> 200, appointments |-> slots, count |-> Len(slots)]

\* GET /appointments
ListAppointments ==
    /\ request'       = [route |-> "appointments"]
    /\ response'      = ListAppointmentsResponse(booked_slots)
    /\ calls'         = <<>>
    /\ errors'        = <<>>
    /\ logout_streak' = 0
    /\ UNCHANGED <<token_store, booked_slots, today, events_created, last_auth>>

\* f"{x:.4f}" (main.py:475): float.__format__ for a number; None raises
\* TypeError, a str raises ValueError.
FormatCost(x) ==
    CASE x.t = "num" -> Val(x)
      [] x.t = "str" -> Raise("ValueError")
      [] OTHER       -> Raise("TypeError")

WebhookAck == [status |-> 200, received |-> TRUE]

\* vapi_webhook (main.py:464-477): the response.  No exception is caught
\* in the handler, so any that is raised is answered 500.
vapi_webhook(raw) ==
    IF raw.kind # "json" THEN InternalServerError      \* await request.json()
    ELSE LET event_type == PyGetGet(raw.val, "message", "type")
         IN  IF event_type.exc # "none" THEN InternalServerError
             ELSE IF event_type.val # JStr("end-of-call-report") THEN WebhookAck
             ELSE LET msg == PyGet(raw.val, "message", EmptyDict).val
                  IN  IF FormatCost(PyGet(msg, "cost", JNum(0)).val).exc # "none"
                      THEN InternalServerError
                      ELSE WebhookAck

\* {"message": {"type": ..., "durationSeconds": ..., "cost": ...}}
Event(type, duration, cost) ==
    JDict([message |-> MkDict(<<<<"type", type>>, <<"durationSeconds", duration>>,
                                <<"cost", cost>>>>)])

\* Bodies of the platform's lifecycle events (costs in ten-thousandths).
WebhookBodies ==
    {RawBadJson}
    \cup {RawJson(b) : b \in
           { Event(JStr("status-update"), Absent, Absent),
             Event(JStr("end-of-call-report"), JNum(42), JNum(123)),
             Event(JStr("end-of-call-report"), Absent, Absent),
             Event(JStr("end-of-call-report"), JNone, JNum(123)),
             Event(JStr("end-of-call-report"), JNum(42), JNone),
             EmptyDict,
             JDict([message |-> JNone]) }}

\* POST /vapi/webhook
VapiWebhook ==
    \E raw \in WebhookBodies :
        /\ request'       = [route |-> "webhook", raw |-> raw]
        /\ response'      = vapi_webhook(raw)
        /\ calls'         = <<>>
        /\ errors'        = <<>>
        /\ logout_streak' = 0
        /\ UNCHANGED <<token_store, booked_slots, today, events_created, last_auth>>

\* Midnight passes on the host: datetime.now().date() moves on.
Tick ==
    /\ today < MaxDay
    /\ today' = today + 1
    /\ UNCHANGED <<token_store, booked_slots, request, response, calls, errors,
                   events_created, last_auth, logout_streak>>

Next ==
    \/ BookAppointment
    \/ GoogleCallback
    \/ AuthStatus
    \/ Logout
    \/ ListAppointments
    \/ VapiWebhook
    \/ Tick

Spec == Init /\ [][Next]_vars

---------------------------------------------------------------------------
(* The tool route alone: one request of the whole universe RawBodies has   *)
(* been received (`await request.body()` returned) by a process that holds *)
(* no credential or one credential, and the handler runs on it.            *)

InitTool ==
    /\ token_store    \in {<<>>} \cup {[k \in {"default"} |-> TokenRecord(tok)] : tok \in Tokens}
    /\ booked_slots   = <<>>
    /\ today          \in FirstDay..MaxDay
    /\ request        \in {[route |-> "received", raw |-> raw] : raw \in RawBodies}
    /\ response       = [status |-> 0]
    /\ calls          = <<>>
    /\ errors         = <<>>
    /\ events_created = 0
    /\ last_auth      = IF token_store = <<>> THEN "none" ELSE "callback"
    /\ logout_streak  = 0

\* The handler runs on the received request.
HandleReceived ==
    /\ request.route = "received"
    /\ BookRequest(request.raw)

NextTool == HandleReceived

ToolSpec == InitTool /\ [][NextTool]_vars

---------------------------------------------------------------------------
(* The voice platform routes: POST /call/start_phone, POST /call/start and *)
(* POST /assistant/refresh (main.py:234-339, 491-508).  A handler issues   *)
(* its upstream requests through httpx; the platform's answer to each is   *)
(* an input.                                                               *)

\* The settings the three handlers read (config.py:12-14); "" is an unset one.
Env(private, public, assistant) ==
    [VAPI_API_KEY |-> private, VAPI_API_PUBLIC_KEY |-> public,
     VAPI_ASSISTANT_ID |-> assistant]

Envs ==
    {Env(k, p, a) : k \in {"", "sk_private"}, p \in {"", "pk_public"},
                    a \in {"", "asst_env"}}

\* Answers of the platform to one request:
\*   Ok        a 2xx response whose body is the JSON value json
\*   NotJson   a 2xx response whose body is not JSON (response.json() raises)
\*   Failed    a non-2xx response with the given status and body text
\*   Transport no response at all (timeout, connection error)
Ok(json)             == [kind |-> "ok", status |-> 200, text |-> "", json |-> json]
NotJson              == [kind |-> "not_json", status |-> 200, text |-> "<html>", json |-> JNone]
Failed(status, text) == [kind |-> "failed", status |-> status, text |-> text, json |-> JNone]
Transport            == [kind |-> "transport", status |-> 0, text |-> "ReadTimeout", json |-> JNone]

\* The JSON bodies of the upstream requests: the built assistant config as
\* such, inline in a phone call, or the id of an assistant.
ConfigBody          == [type |-> "", assistant |-> "assistant_config", assistantId |-> JNone]
PhoneCallBody       == [type |-> "outboundPhoneCall", assistant |-> "assistant_config",
                        assistantId |-> JNone]
WebCallBody(id)     == [type |-> "", assistant |-> "", assistantId |-> id]

\* One request issued through httpx.AsyncClient; url is the tuple of the
\* parts of the f-string.
UpstreamRequest(method, url, bearer, body) ==
    [method |-> method, url |-> url, bearer |-> bearer, body |-> body]

\* raise HTTPException(status_code=..., detail=...)
HTTPException(status, detail) == [status |-> status, detail |-> detail]

\* What one run of a handler did: its response and its upstream requests.
Did(resp, log) == [resp |-> resp, calls |-> log]

\* The except clauses of start_phone_call and start_call (main.py:264-269,
\* 334-339) for an answer that made the request or raise_for_status raise.
UpstreamFailure(ans) ==
    IF ans.kind = "failed" THEN HTTPException(ans.status, ans.text)
    ELSE HTTPException(500, ans.text)

\* response.raise_for_status() returns (a 2xx response arrived)
Succeeded(ans) == ans.kind \in {"ok", "not_json"}

\* response.json().get(k): JSONDecodeError when the body is not JSON,
\* AttributeError when it is not a dict.
DataGet(ans, k) ==
    IF ans.kind # "ok" THEN Raise("JSONDecodeError") ELSE PyGet(ans.json, k, JNone)

\* start_phone_call (main.py:234-269)
start_phone_call(env, ans) ==
    IF env.VAPI_API_PUBLIC_KEY = ""
    THEN Did(HTTPException(500, "VAPI_API_PUBLIC_KEY not configured"), <<>>)
    ELSE LET log == <<UpstreamRequest("POST", <<"https://api.vapi.ai/call">>,
                                      env.VAPI_API_PUBLIC_KEY, PhoneCallBody)>>
         IN  IF ~Succeeded(ans) THEN Did(UpstreamFailure(ans), log)
             ELSE IF DataGet(ans, "id").exc # "none"
             THEN Did(HTTPException(500, DataGet(ans, "id").exc), log)
             ELSE Did([status       |-> 200,
                       call_id      |-> DataGet(ans, "id").val,
                       web_call_url |-> DataGet(ans, "webCallUrl").val], log)

\* Mutant: the assistant is created even when an id is configured.
AssistantRequest_AlwaysCreate(env) ==
    UpstreamRequest("POST", <<"https://api.vapi.ai/assistant">>,
                    env.VAPI_API_KEY, ConfigBody)

\* Step 1 of start_call (main.py:283-308): the request for the assistant
AssistantRequest(env) ==
    IF env.VAPI_ASSISTANT_ID # ""
    THEN UpstreamRequest("PATCH", <<"https://api.vapi.ai/assistant/", env.VAPI_ASSISTANT_ID>>,
                         env.VAPI_API_KEY, ConfigBody)
    ELSE UpstreamRequest("POST", <<"https://api.vapi.ai/assistant">>,
                         env.VAPI_API_KEY, ConfigBody)

\* assistant_id after step 1 (main.py:295, 309); the answer is a success
AssistantId(env, ans) ==
    IF env.VAPI_ASSISTANT_ID # ""
    THEN Val(JStr(env.VAPI_ASSISTANT_ID))
    ELSE DataGet(ans, "id")

\* Step 2 of start_call (main.py:313-321): the request for the web call
WebCallRequest(env, assistant_id) ==
    UpstreamRequest("POST", <<"https://api.vapi.ai/call/web">>,
                    env.VAPI_API_PUBLIC_KEY, WebCallBody(assistant_id))

\* call_data.get("webCallUrl") or call_data.get("transport", {}).get("callUrl")
WebCallUrl(ans) ==
    IF DataGet(ans, "webCallUrl").exc # "none" THEN DataGet(ans, "webCallUrl")
    ELSE IF Truthy(DataGet(ans, "webCallUrl").val) THEN DataGet(ans, "webCallUrl")
    ELSE PyGetGet(ans.json, "transport", "callUrl")

\* start_call (main.py:271-339); ans1 answers step 1, ans2 answers step 2
start_call(env, ans1, ans2) ==
    IF env.VAPI_API_KEY = ""
    THEN Did(HTTPException(500, "VAPI_API_KEY not configured"), <<>>)
    ELSE LET log1 == <<AssistantRequest(env)>>
         IN  IF ~Succeeded(ans1) THEN Did(UpstreamFailure(ans1), log1)
             ELSE IF AssistantId(env, ans1).exc # "none"
             THEN Did(HTTPException(500, AssistantId(env, ans1).exc), log1)
             ELSE LET assistant_id == AssistantId(env, ans1).val
                      log2 == log1 \o <<WebCallRequest(env, assistant_id)>>
                  IN  IF ~Succeeded(ans2) THEN Did(UpstreamFailure(ans2), log2)
                      ELSE IF WebCallUrl(ans2).exc # "none"
                      THEN Did(HTTPException(500, WebCallUrl(ans2).exc), log2)
                      ELSE Did([status       |-> 200,
                                call_id      |-> DataGet(ans2, "id").val,
                                assistant_id |-> assistant_id,
                                web_call_url |-> WebCallUrl(ans2).val], log2)

\* refresh_assistant (main.py:491-508): no key test and no try block; an
\* exception of raise_for_status, of the transport or of response.json()
\* leaves the handler.
refresh_assistant(env, ans) ==
    LET log == <<UpstreamRequest("POST", <<"https://api.vapi.ai/assistant">>,
                                 env.VAPI_API_KEY, ConfigBody)>>
    IN  IF ~Succeeded(ans) THEN Did(InternalServerError, log)
        ELSE IF DataGet(ans, "id").exc # "none" THEN Did(InternalServerError, log)
        ELSE Did([status       |-> 200,
                  assistant_id |-> DataGet(ans, "id").val,
                  message      |-> <<"Copy to Railway env: VAPI_ASSISTANT_ID=",
                                     DataGet(ans, "id").val>>], log)

\* The platform's answers to the request for an assistant and to a call.
AssistantAnswers ==
    { Ok(JDict([id |-> JStr("asst_new")])), Ok(EmptyDict), Ok(EmptyList), NotJson,
      Failed(401, "{\"message\": \"Invalid Key\"}"),
      Failed(404, "{\"message\": \"Not Found\"}"),
      Failed(503, "upstream unavailable"), Transport }

CallAnswers ==
    { Ok(JDict([id |-> JStr("call_9"), webCallUrl |-> JStr("https://vapi.daily.co/9")])),
      Ok(JDict([id |-> JStr("call_9"),
                transport |-> JDict([callUrl |-> JStr("https://vapi.daily.co/t9")])])),
      Ok(EmptyDict), NotJson,
      Failed(400, "{\"message\": \"assistantId must be a UUID\"}"),
      Failed(402, "{\"message\": \"Out of credits\"}"),
      Failed(500, "Internal Server Error"), Transport }

\* A request to one of the three routes has arrived at a process started
\* with the settings env; answers is what the platform will answer.
PlatformRequests ==
    {[route |-> "arrived", target |-> "start_phone", env |-> env, answers |-> <<a>>] :
        env \in Envs, a \in CallAnswers}
    \cup {[route |-> "arrived", target |-> "start", env |-> env, answers |-> <<a1, a2>>] :
        env \in Envs, a1 \in AssistantAnswers, a2 \in CallAnswers}
    \cup {[route |-> "arrived", target |-> "refresh", env |-> env, answers |-> <<a>>] :
        env \in Envs, a \in AssistantAnswers}

InitPlatform ==
    /\ token_store    = <<>>
    /\ booked_slots   = <<>>
    /\ today          = FirstDay
    /\ request        \in PlatformRequests
    /\ response       = [status |-> 0]
    /\ calls          = <<>>
    /\ errors         = <<>>
    /\ events_created = 0
    /\ last_auth      = "none"
    /\ logout_streak  = 0

\* The handler of the arrived request ran and left the result r.
Handled(route, r) ==
    /\ request'  = [request EXCEPT !.route = route]
    /\ response' = r.resp
    /\ calls'    = r.calls
    /\ UNCHANGED <<token_store, booked_slots, today, errors, events_created,
                   last_auth, logout_streak>>

\* POST /call/start_phone
StartPhoneCall ==
    /\ request.route = "arrived" /\ request.target = "start_phone"
    /\ Handled("start_phone", start_phone_call(request.env, request.answers[1]))

\* POST /call/start
StartCall ==
    /\ request.route = "arrived" /\ request.target = "start"
    /\ Handled("start", start_call(request.env, request.answers[1], request.answers[2]))

\* POST /assistant/refresh
RefreshAssistant ==
    /\ request.route = "arrived" /\ request.target = "refresh"
    /\ Handled("refresh", refresh_assistant(request.env, request.answers[1]))

NextPlatform ==
    \/ StartPhoneCall
    \/ StartCall
    \/ RefreshAssistant

PlatformSpec == InitPlatform /\ [][NextPlatform]_vars

---------------------------------------------------------------------------
(* Loading the configuration: the import of config.py (config.py:1-80,     *)
(* 242-244).  The process environment is an input: each variable is unset  *)
(* (os.getenv gives None, or the default) or set to a text.                *)

\* os.getenv(name, default)
getenv(environ, name, default) ==
    IF environ[name] = JNone THEN default ELSE environ[name]

\* int(text) on the modelled texts: ValueError unless the text is a number.
ParseInt(x) ==
    IF x.v \in {"30", "7", "10", "60", "45"} THEN Val(x) ELSE Raise("ValueError")

\* The settings read with int(...) at import, in the order of the module,
\* with their defaults (config.py:39, 40, 49, 50).
IntSettings ==
    << <<"ACCESS_TOKEN_EXPIRE_MINUTES", "30">>, <<"REFRESH_TOKEN_EXPIRE_DAYS", "7">>,
       <<"RATE_LIMIT_CALLS", "10">>, <<"RATE_LIMIT_PERIOD", "60">> >>

\* The settings validate_config requires, in the order of required_vars, with
\* the default os.getenv gives each when the variable is unset.
RequiredVars ==
    << <<"VAPI_API_KEY", JNone>>, <<"VAPI_API_PUBLIC_KEY", JNone>>,
       <<"GOOGLE_CLIENT_ID", JNone>>, <<"GOOGLE_CLIENT_SECRET", JNone>>,
       <<"GOOGLE_REDIRECT_URI", JNone>>, <<"YOUR_EMAIL", JNone>>,
       <<"BACKEND_URL", JStr("http://localhost:8000")>> >>

\* ENVIRONMENT = os.getenv("ENVIRONMENT", "development") (config.py:9)
ENVIRONMENT(environ) == getenv(environ, "ENVIRONMENT", JStr("development")).v

\* The module-level value of a required setting (config.py:12-28)
Setting(environ, i) == getenv(environ, RequiredVars[i][1], RequiredVars[i][2])

MissingLine(name) == <<"Missing required environment variable: ", name>>

\* Mutant: the loop stops at the first missing setting.
validate_config_FirstOnly(environ) ==
    LET missing == SelectSeq([i \in 1..Len(RequiredVars) |-> i],
                             LAMBDA i : ~Truthy(Setting(environ, i)))
    IN  IF ENVIRONMENT(environ) # "production" \/ missing = <<>> THEN <<>>
        ELSE <<MissingLine(RequiredVars[missing[1]][1])>>

\* validate_config (config.py:56-80): the list `errors`; the function raises
\* ValueError with these lines when the list is not empty.
validate_config(environ) ==
    IF ENVIRONMENT(environ) = "production"
    THEN LET missing == SelectSeq([i \in 1..Len(RequiredVars) |-> i],
                                  LAMBDA i : ~Truthy(Setting(environ, i)))
         IN  [j \in 1..Len(missing) |-> MissingLine(RequiredVars[missing[j]][1])]
    ELSE <<>>

Loaded == [kind |-> "loaded", line |-> 0, lines |-> <<>>]
LoadFailed(line, lines) == [kind |-> "ValueError", line |-> line, lines |-> lines]

\* The import of config.py: the int(...) calls of the module body, then
\* `if ENVIRONMENT: validate_config()`.  line is the place of the int(...)
\* call in IntSettings that raised, 0 when none did.
LoadConfig(environ) ==
    LET bad == {i \in 1..Len(IntSettings) :
                  ParseInt(getenv(environ, IntSettings[i][1], JStr(IntSettings[i][2]))).exc # "none"}
    IN  IF bad # {}
        THEN LoadFailed(CHOOSE i \in bad : \A j \in bad : i <= j, <<>>)
        ELSE IF ENVIRONMENT(environ) # "" /\ validate_config(environ) # <<>>
        THEN LoadFailed(0, validate_config(environ))
        ELSE Loaded

\* Process environments: ENVIRONMENT unset or set, each required variable
\* unset or set (BACKEND_URL also set to the empty text), the integer
\* settings unset, set to a number or set to something else.
Environs ==
    [ENVIRONMENT                 : {JNone, JStr("production"), JStr("staging"),
                                    JStr("Production"), JStr("")},
     VAPI_API_KEY                : {JNone, JStr("sk_private")},
     VAPI_API_PUBLIC_KEY         : {JNone, JStr("pk_public")},
     GOOGLE_CLIENT_ID            : {JNone, JStr("client-id")},
     GOOGLE_CLIENT_SECRET        : {JStr(""), JStr("client-secret")},
     GOOGLE_REDIRECT_URI         : {JNone, JStr("https://api.example.com/auth/callback")},
     YOUR_EMAIL                  : {JNone, JStr("owner@example.com")},
     BACKEND_URL                 : {JNone, JStr(""), JStr("https://api.example.com")},
     ACCESS_TOKEN_EXPIRE_MINUTES : {JNone, JStr("45"), JStr("abc"), JStr("")},
     REFRESH_TOKEN_EXPIRE_DAYS   : {JNone, JStr("abc")},
     RATE_LIMIT_CALLS            : {JNone, JStr("")},
     RATE_LIMIT_PERIOD           : {JNone, JStr("abc")}]

InitConfig ==
    /\ token_store    = <<>>
    /\ booked_slots   = <<>>
    /\ today          = FirstDay
    /\ request        \in {[route |-> "starting", environ |-> e] : e \in Environs}
    /\ response       = [status |-> 0]
    /\ calls          = <<>>
    /\ errors         = <<>>
    /\ events_created = 0
    /\ last_auth      = "none"
    /\ logout_streak  = 0

\* `import app.config`
ImportConfig ==
    /\ request.route = "starting"
    /\ request'  = [request EXCEPT !.route = "imported"]
    /\ response' = LoadConfig(request.environ)
    /\ UNCHANGED <<token_store, booked_slots, today, calls, errors, events_created,
                   last_auth, logout_streak>>

NextConfig == ImportConfig

ConfigSpec == InitConfig /\ [][NextConfig]_vars

---------------------------------------------------------------------------
(* Concurrent requests.  Every route handler is a coroutine on one event   *)
(* loop: it runs until it awaits, and another handler can run only then.   *)
(* The tool-call handler awaits once, `await request.body()` (main.py:345);*)
(* google_callback, logout and list_appointments never await, and neither  *)
(* do get_calendar_service and create_google_calendar_event, which are     *)
(* plain functions.  In this specification request, response and the local *)
(* variables of a handler are kept per task.                               *)

Tasks == 1..MaxTasks

\* The tool call of task t: valid arguments, its own identifier.
TaskCallId(t) == JStr(<<"call", t>>)
TaskAppt      == Appt(ApptInput(ArgsJohn))

\* Mutant: the handler is also suspended between the membership test of
\* get_calendar_service and its read of token_store["default"].
BookingAwaits_BeforeRead == {"body", "read"}

\* The positions of the tool-call handler at which the coroutine is suspended
\* before going on: the one await of main.py:345.
BookingAwaits == {"body"}

\* The frame of a running tool-call handler: its position, the stores as it
\* sees and leaves them, the provider's event counter, and its locals.
Frame(pc, store, slots, created, inserted, resp, exc) ==
    [pc |-> pc, store |-> store, slots |-> slots, created |-> created,
     inserted |-> inserted, resp |-> resp, exc |-> exc]

\* One statement group of the tool-call handler of task t, from position
\* f.pc; outcome is the provider's answer should the insert be reached.
BookStep(f, t, outcome) ==
    CASE f.pc = "start" ->          \* main.py:345: raw_body = await request.body()
            [f EXCEPT !.pc = "body"]
      [] f.pc = "body" ->           \* 346-424: decode, extract, AppointmentDetails
            IF ValidationErrors(ApptInput(ArgsJohn), today) # <<>>
            THEN [f EXCEPT !.pc = "done",
                           !.resp = ToolResponse(TaskCallId(t), MsgInvalidInput, <<>>)]
            ELSE [f EXCEPT !.pc = "lookup"]
      [] f.pc = "lookup" ->         \* 64-65: if "default" not in token_store: raise
            IF HasCredential(f.store) THEN [f EXCEPT !.pc = "read"]
            ELSE [f EXCEPT !.pc = "done",
                           !.resp = ToolResponse(TaskCallId(t), MsgNotConnected, <<>>)]
      [] f.pc = "read" ->           \* 66: Credentials(**token_store["default"])
            IF "default" \in DOMAIN f.store THEN [f EXCEPT !.pc = "insert"]
            ELSE [f EXCEPT !.pc = "done", !.exc = "KeyError",
                           !.resp = ToolResponse(TaskCallId(t), MsgGeneric, <<>>)]
      [] f.pc = "insert" ->         \* 136-140: service.events().insert(...).execute()
            IF outcome.kind = "created"
            THEN [f EXCEPT !.pc = "append", !.created = f.created + 1,
                           !.inserted = f.created + 1]
            ELSE IF outcome.kind = "HttpError" /\ HttpErrorResult(outcome) # "raise"
            THEN [f EXCEPT !.pc = "done",
                           !.resp = ToolResponse(TaskCallId(t), HttpErrorResult(outcome), <<>>)]
            ELSE IF outcome.kind = "HttpError"
            THEN [f EXCEPT !.pc = "done",
                           !.resp = ToolResponse(TaskCallId(t), MsgCalendarError, <<>>)]
            ELSE [f EXCEPT !.pc = "done",
                           !.resp = ToolResponse(TaskCallId(t), MsgGeneric, <<>>)]
      [] f.pc = "append" ->         \* 145-155: booked_slots.append({...})
            [f EXCEPT !.pc = "return",
                      !.slots = Appended(f.slots, <<BookedSlot(TaskAppt, Created(f.inserted), today)>>)]
      [] f.pc = "return" ->         \* 157-163, 433-434
            [f EXCEPT !.pc = "done",
                      !.resp = ToolResponse(TaskCallId(t), MsgBooked, <<TaskAppt.email>>)]

\* The handler runs from f.pc until it is suspended at an await or returns.
RECURSIVE RunToAwait(_, _, _)
RunToAwait(f, t, outcome) ==
    LET g == BookStep(f, t, outcome)
    IN  IF g.pc = "done" \/ g.pc \in BookingAwaits THEN g
        ELSE RunToAwait(g, t, outcome)

\* The requests in flight: one per task.
TaskRequest(route, token) ==
    [route |-> route, pc |-> "start", token |-> token, inserted |-> 0]

TaskRequests ==
    {TaskRequest("book", ""), TaskRequest("logout", ""), TaskRequest("appointments", "")}
    \cup {TaskRequest("callback", tok) : tok \in Tokens \cup {""}}

InitConc ==
    /\ token_store    \in {<<>>, [k \in {"default"} |-> TokenRecord("ya29.A")]}
    /\ booked_slots   = <<>>
    /\ today          = FirstDay
    /\ request        \in [Tasks -> TaskRequests]
    /\ response       = [t \in Tasks |-> [status |-> 0]]
    /\ calls          = <<>>
    /\ errors         = <<>>
    /\ events_created = 0
    /\ last_auth      = IF token_store = <<>> THEN "none" ELSE "ya29.A"
    /\ logout_streak  = 0

\* The event loop resumes the tool-call handler of task t.
ResumeBooking(t) ==
    /\ request[t].route = "book" /\ request[t].pc # "done"
    /\ \E outcome \in {Created(0), HttpError(TRUE, FALSE), HttpError(FALSE, FALSE), OtherError} :
          LET f == RunToAwait(Frame(request[t].pc, token_store, booked_slots, events_created,
                                    request[t].inserted, response[t], ""), t, outcome)
          IN  /\ request'        = [request EXCEPT ![t].pc = f.pc, ![t].inserted = f.inserted]
              /\ response'       = [response EXCEPT ![t] = f.resp]
              /\ booked_slots'   = f.slots
              /\ events_created' = f.created
              /\ calls'          = IF f.created > events_created
                                   THEN Append(calls, f.created) ELSE calls
              /\ errors'         = IF f.exc # "" THEN Append(errors, <<t, f.exc>>) ELSE errors
              /\ UNCHANGED <<token_store, today, last_auth, logout_streak>>

\* The event loop runs google_callback for task t; an empty token is a
\* failed exchange.
RunCallback(t) ==
    /\ request[t].route = "callback" /\ request[t].pc # "done"
    /\ LET exchange == IF request[t].token = "" THEN [kind |-> "fetch_error", token |-> ""]
                       ELSE [kind |-> "ok", token |-> request[t].token]
       IN  /\ token_store' = CallbackStore(token_store, exchange)
           /\ response'    = [response EXCEPT ![t] = CallbackResponse(exchange)]
           /\ last_auth'   = IF exchange.kind = "ok" THEN exchange.token ELSE last_auth
    /\ request' = [request EXCEPT ![t].pc = "done"]
    /\ UNCHANGED <<booked_slots, today, calls, errors, events_created, logout_streak>>

\* The event loop runs logout for task t.
RunLogout(t) ==
    /\ request[t].route = "logout" /\ request[t].pc # "done"
    /\ token_store' = logout(token_store).store
    /\ response'    = [response EXCEPT ![t] = logout(token_store).resp]
    /\ last_auth'   = "logout"
    /\ request'     = [request EXCEPT ![t].pc = "done"]
    /\ UNCHANGED <<booked_slots, today, calls, errors, events_created, logout_streak>>

\* The event loop runs list_appointments for task t.
RunListAppointments(t) ==
    /\ request[t].route = "appointments" /\ request[t].pc # "done"
    /\ response' = [response EXCEPT ![t] = ListAppointmentsResponse(booked_slots)]
    /\ request'  = [request EXCEPT ![t].pc = "done"]
    /\ UNCHANGED <<token_store, booked_slots, today, calls, errors, events_created,
                   last_auth, logout_streak>>

NextConc ==
    \E t \in Tasks :
        \/ ResumeBooking(t)
        \/ RunCallback(t)
        \/ RunLogout(t)
        \/ RunListAppointments(t)

ConcSpec == InitConc /\ [][NextConc]_vars

---------------------------------------------------------------------------
(* Properties.                                                             *)

\* The step is a request to the given route (Tick is the only other step,
\* and it changes today).
StepOf(route) == request'.route = route /\ today' = today

\* Reading of a body by its layout alone, without the handler's control flow.
Field(x, k) == IF x.t = "dict" /\ k \in DOMAIN x.v THEN x.v[k] ELSE JNone
First(x)    == IF x.t = "list" /\ Len(x.v) > 0 THEN x.v[1] ELSE JNone
Empty(x)    == x \in {JNone, EmptyDict, EmptyList, JStr(""), JNum(0)}

\* The arguments the handler acts on: the extracted ones, decoded when they
\* are a JSON text.
ActedArgs(raw) ==
    IF raw.kind # "json" \/ ExtractArgs(raw.val).exc # "none" THEN JNone
    ELSE LET a == ExtractArgs(raw.val).val
         IN  IF a.t # "str" THEN a
             ELSE IF JsonLoads(a.v).exc = "none" THEN JsonLoads(a.v).val ELSE JNone

\* The required fields that the dict args lacks or holds an empty value for.
Lacking(args) ==
    {f \in RequiredSet : f \notin DOMAIN args.v \/ Empty(args.v[f])}

\* The arguments are a dict with every required field, and AppointmentDetails
\* accepts them on day now.
ArgsPassValidation(raw, now) ==
    /\ ActedArgs(raw).t = "dict"
    /\ Lacking(ActedArgs(raw)) = {}
    /\ ValidationErrors(ApptInput(ActedArgs(raw)), now) = <<>>

IsPrefix(s, t) == Len(s) <= Len(t) /\ SubSeq(t, 1, Len(s)) = s

\* C1 (as claimed): every request to the tool route whose body is text, valid
\* JSON or not, is answered with HTTP 200 and a body
\* {results: [{toolCallId, result}]}.
C1_AlwaysEnvelope200 ==
    (request.route = "book" /\ request.raw.kind # "bad_utf8") =>
        /\ response.status = 200
        /\ DOMAIN response = {"status", "toolCallId", "result"}

\* C2: a tool call whose arguments pass validation, with a credential stored
\* and the event accepted by the provider, appends exactly one slot that
\* carries the request's name, email, phone, date, time and purpose, and is
\* answered with the confirmation naming the request's email.
C2_ValidBookingAppendsOneSlot ==
    [][ (/\ StepOf("book")
         /\ ArgsPassValidation(request'.raw, today)
         /\ "default" \in DOMAIN token_store
         /\ request'.outcome.kind = "created")
        => LET a == ActedArgs(request'.raw).v
               n == Len(booked_slots)
           IN  /\ Len(booked_slots') = n + 1
               /\ SubSeq(booked_slots', 1, n) = booked_slots
               /\ booked_slots'[n + 1].name  = a["name"].v
               /\ booked_slots'[n + 1].email = a["email"].v
               /\ booked_slots'[n + 1].phone = a["phone"].v
               /\ booked_slots'[n + 1].date  = a["date"].v
               /\ booked_slots'[n + 1].time  = a["time"].v
               /\ booked_slots'[n + 1].purpose =
                      (IF "purpose" \in DOMAIN a THEN a["purpose"].v ELSE DefaultPurpose)
               /\ response'.status = 200
               /\ response'.result = Result(MsgBooked, <<a["email"].v>>) ]_vars

\* C2 witness: the second accepted booking, of Jane's request, is stored.
C2_Witness ==
    /\ request.route = "book"
    /\ request.outcome.kind = "created"
    /\ Len(booked_slots) = 2
    /\ booked_slots[2].email = "jane@example.com"
    /\ response.result = Result(MsgBooked, <<"jane@example.com">>)

\* C3: with no credential stored, a tool call whose arguments pass validation
\* is answered 200 with the not-connected message, the provider's insert is
\* not called, and booked_slots is unchanged.
C3_NoCredentialNoBooking ==
    [][ (/\ StepOf("book")
         /\ ArgsPassValidation(request'.raw, today)
         /\ "default" \notin DOMAIN token_store)
        => /\ response'.status = 200
           /\ response'.result = Result(MsgNotConnected, <<>>)
           /\ "events.insert" \notin Range(calls')
           /\ request'.outcome = NotCalled
           /\ booked_slots' = booked_slots
           /\ events_created' = events_created ]_vars

\* C3 witness: logged out after a booking, then a valid tool call is answered
\* with the not-connected message.
C3_Witness ==
    /\ request.route = "book"
    /\ ArgsPassValidation(request.raw, today)
    /\ last_auth = "logout"
    /\ Len(booked_slots) = 1
    /\ response.result = Result(MsgNotConnected, <<>>)

\* C4: booked_slots only grows, by one slot appended per event the provider
\* created and by nothing else (not by logout, callback, a failed booking or
\* the listing), and GET /appointments returns the whole list with count equal
\* to its length, which is the number of events created since the start.
C4_AppendOnly ==
    /\ [](Len(booked_slots) = events_created)
    /\ [](request.route = "appointments" =>
            /\ response.appointments = booked_slots
            /\ response.count = Len(booked_slots)
            /\ response.count = events_created)
    /\ [][ /\ IsPrefix(booked_slots, booked_slots')
           /\ booked_slots' # booked_slots =>
                /\ StepOf("book")
                /\ request'.outcome.kind = "created"
                /\ Len(booked_slots') = Len(booked_slots) + 1
           /\ (StepOf("book") /\ request'.outcome.kind # "created") =>
                booked_slots' = booked_slots ]_vars

\* C4 witness: the listing after two bookings and a logout.
C4_Witness ==
    /\ request.route = "appointments"
    /\ response.count = 2
    /\ last_auth = "logout"

\* The date argument of the last request, when its handler called
\* AppointmentDetails(...) with a str date.
DateChecked ==
    /\ request.route = "book"
    /\ "AppointmentDetails" \in Range(calls)
    /\ Field(ActedArgs(request.raw), "date").t = "str"

DateArg == Field(ActedArgs(request.raw), "date").v

\* C5 (as claimed): a date that parses and lies before the current day is
\* rejected with the must-be-in-the-future message, a date that does not
\* parse with the wrong-format message.
C5_DateMessagesDistinct ==
    DateChecked =>
        /\ (StrpDate(DateArg) # 0 /\ StrpDate(DateArg) < today) =>
              \E i \in 1..Len(errors) :
                  errors[i].loc = "date" /\ errors[i].msg = MsgDateFuture
        /\ StrpDate(DateArg) = 0 =>
              \E i \in 1..Len(errors) :
                  errors[i].loc = "date" /\ errors[i].msg = MsgDateFormat

\* The value of the "arguments" key at each known location of the body b.
ArgsAtMessage(b) ==
    Field(Field(First(Field(Field(b, "message"), "toolCallList")), "function"), "arguments")
ArgsAtToolCall(b)     == Field(Field(Field(b, "toolCall"), "function"), "arguments")
ArgsAtToolCallList(b) == Field(Field(First(Field(b, "toolCallList")), "function"), "arguments")
ArgsAtFunction(b)     == Field(Field(b, "function"), "arguments")

\* The body is a JSON object whose envelope members, where present, are of
\* the expected JSON type, and the arguments are at none of the known
\* locations.
ArgsAbsentEverywhere(b) ==
    /\ b.t = "dict"
    /\ \A k \in {"message", "toolCall", "function"} : k \in DOMAIN b.v => b.v[k].t = "dict"
    /\ "toolCallList" \in DOMAIN b.v =>
          /\ b.v["toolCallList"].t = "list"
          /\ \A i \in 1..Len(b.v["toolCallList"].v) : b.v["toolCallList"].v[i].t = "dict"
    /\ Field(b, "message").t = "dict" =>
          LET l == Field(Field(b, "message"), "toolCallList")
          IN  /\ l.t \in {"list", "none"}
              /\ l.t = "list" => \A i \in 1..Len(l.v) : l.v[i].t = "dict"
    /\ \A f \in {Field(First(Field(Field(b, "message"), "toolCallList")), "function"),
                 Field(Field(b, "toolCall"), "function"),
                 Field(First(Field(b, "toolCallList")), "function")} :
          f.t \in {"dict", "none"}
    /\ Empty(ArgsAtMessage(b))
    /\ Empty(ArgsAtToolCall(b))
    /\ Empty(ArgsAtToolCallList(b))
    /\ Empty(ArgsAtFunction(b))
    /\ ~("name" \in DOMAIN b.v /\ "email" \in DOMAIN b.v)

\* The identifier found in the body b, None when there is none.
IdFound(b) ==
    LET i1 == Field(First(Field(Field(b, "message"), "toolCallList")), "id")
        i2 == Field(Field(b, "toolCall"), "id")
        i3 == Field(First(Field(b, "toolCallList")), "id")
    IN  IF ~Empty(i1) THEN i1 ELSE IF ~Empty(i2) THEN i2 ELSE i3

\* C6 (as claimed): a body with the arguments at none of the known locations,
\* its containers empty or not there, is answered with the request to repeat
\* the booking details and the identifier found in the body.
C6_AbsentArgsAskToRepeat ==
    (/\ request.route = "book"
     /\ request.raw.kind = "json"
     /\ ArgsAbsentEverywhere(request.raw.val))
    => response = ToolResponse(IdFound(request.raw.val), MsgTrouble, <<>>)

\* C7: when arguments were extracted (they are not empty) and the dict acted
\* on lacks, or holds an empty value for, some of name, phone, email, date,
\* time, the response lists
\* exactly those fields, each once, AppointmentDetails is not constructed,
\* the calendar is not called and booked_slots is unchanged.
C7_MissingFieldsListedExactly ==
    [][ (/\ StepOf("book")
         /\ ActedArgs(request'.raw).t = "dict"
         /\ ~Empty(ExtractArgs(request'.raw.val).val)
         /\ Lacking(ActedArgs(request'.raw)) # {})
        => /\ response'.status = 200
           /\ response'.result.text = MsgMissing
           /\ Range(response'.result.args) = Lacking(ActedArgs(request'.raw))
           /\ Len(response'.result.args) = Cardinality(Lacking(ActedArgs(request'.raw)))
           /\ calls' = <<>>
           /\ errors' = <<>>
           /\ booked_slots' = booked_slots
           /\ events_created' = events_created ]_vars

\* C7 witness: phone and time came empty, and the response lists the two.
C7_Witness ==
    /\ request.route = "book"
    /\ ActedArgs(request.raw).t = "dict"
    /\ Lacking(ActedArgs(request.raw)) = {"phone", "time"}
    /\ Field(ActedArgs(request.raw), "phone") = JStr("")
    /\ response.result = Result(MsgMissing, <<"phone", "time">>)

\* C8: an HttpError of the insert whose text contains "403" is answered 200
\* with the permission-denied message, one whose text contains "409" and not
\* "403" with the time-slot-conflict message, and booked_slots is unchanged.
C8_Provider403And409 ==
    [][ (StepOf("book") /\ request'.outcome.kind = "HttpError")
        => /\ request'.outcome.has403 =>
                /\ response'.status = 200
                /\ response'.result = Result(MsgPermission, <<>>)
           /\ (request'.outcome.has409 /\ ~request'.outcome.has403) =>
                /\ response'.status = 200
                /\ response'.result = Result(MsgConflict, <<>>)
           /\ (request'.outcome.has403 \/ request'.outcome.has409) =>
                /\ booked_slots' = booked_slots
                /\ events_created' = events_created ]_vars

\* C8 witness: an error text with both "403" and "409" got the
\* permission-denied answer, after one slot was booked.
C8_Witness ==
    /\ request.route = "book"
    /\ request.outcome = HttpError(TRUE, TRUE)
    /\ response.result = Result(MsgPermission, <<>>)
    /\ Len(booked_slots) = 1

\* C9: token_store holds at most the record "default"; a successful callback
\* writes the exchanged credential there, a failing callback answers 400 and
\* leaves the store as it was, logout empties it, no other step changes it;
\* GET /auth/status answers authenticated exactly when the last of
\* (successful callback, logout) was a successful callback.
C9_SingleCredential ==
    /\ [](DOMAIN token_store \subseteq {"default"})
    /\ []("default" \in DOMAIN token_store <=> last_auth = "callback")
    /\ [](request.route = "status" =>
            /\ response.status = 200
            /\ response.authenticated = (last_auth = "callback"))
    /\ [][ /\ (StepOf("callback") /\ request'.exchange.kind = "ok") =>
                /\ DOMAIN token_store' = {"default"}
                /\ token_store'["default"].token = request'.exchange.token
                /\ response'.status = RedirectStatus
           /\ (StepOf("callback") /\ request'.exchange.kind # "ok") =>
                /\ response'.status = 400
                /\ token_store' = token_store
           /\ StepOf("logout") => DOMAIN token_store' = {}
           /\ ~(StepOf("callback") \/ StepOf("logout")) =>
                token_store' = token_store ]_vars

\* C9 witness: a second credential replaced the first, then a callback
\* failed and the second credential is still the one stored.
C9_Witness ==
    /\ request.route = "callback"
    /\ response.status = 400
    /\ "default" \in DOMAIN token_store
    /\ token_store["default"].token = "ya29.B"
    /\ Len(booked_slots) = 1

\* C10: /auth/logout with no credential stored answers success and leaves
\* the store empty, and a second logout in a row leaves the state and the
\* response of the first.
C10_LogoutIdempotent ==
    [][ StepOf("logout") =>
          /\ response' = LogoutResponse
          /\ DOMAIN token_store' = {}
          /\ booked_slots' = booked_slots
          /\ request.route = "logout" =>
                /\ token_store' = token_store
                /\ response' = response ]_vars

\* C10 witness: two logouts in a row.
C10_Witness ==
    /\ request.route = "logout"
    /\ logout_streak = 2
    /\ response = LogoutResponse

\* The upstream requests of the last handler, by kind.
Patches    == {i \in 1..Len(calls) : calls[i].method = "PATCH"}
Creations  == {i \in 1..Len(calls) :
                 calls[i].method = "POST" /\ calls[i].url = <<"https://api.vapi.ai/assistant">>}
WebCalls   == {i \in 1..Len(calls) : calls[i].url = <<"https://api.vapi.ai/call/web">>}

\* C11 (as claimed): on /call/start_phone, /call/start and /assistant/refresh,
\* a non-2xx answer of the voice platform to a request the handler issued is
\* answered to the caller with the platform's status code and body, and no
\* upstream request is issued twice.
C11_UpstreamFailurePropagated ==
    (request.route \in {"start_phone", "start", "refresh"}) =>
        /\ Len(calls) <= Len(request.answers)
        /\ \A i, j \in 1..Len(calls) : i # j => calls[i] # calls[j]
        /\ \A i \in 1..Len(calls) :
               request.answers[i].kind = "failed" =>
                   /\ response.status = request.answers[i].status
                   /\ response.detail = request.answers[i].text

\* C17: in /call/start, with the private key configured, a configured
\* assistant id gives exactly one PATCH of that assistant and no creation,
\* no configured id gives exactly one creation POST and no PATCH; a web-call
\* request is the second request, is issued only when the assistant request
\* was answered 2xx, and carries the configured id or the id the creation
\* returned; without the private key nothing is issued and the answer is 500.
C17_StartCallOrder ==
    (request.route = "start") =>
        LET env == request.env
            a1  == request.answers[1]
        IN  /\ env.VAPI_API_KEY = "" => calls = <<>> /\ response.status = 500
            /\ env.VAPI_API_KEY # "" =>
                  /\ env.VAPI_ASSISTANT_ID # "" =>
                        /\ Patches = {1} /\ Creations = {}
                        /\ calls[1].url = <<"https://api.vapi.ai/assistant/", env.VAPI_ASSISTANT_ID>>
                  /\ env.VAPI_ASSISTANT_ID = "" => Creations = {1} /\ Patches = {}
                  /\ WebCalls \subseteq {2}
                  /\ ~Succeeded(a1) => WebCalls = {}
                  /\ \A w \in WebCalls :
                        calls[w].body.assistantId =
                            IF env.VAPI_ASSISTANT_ID # "" THEN JStr(env.VAPI_ASSISTANT_ID)
                            ELSE Field(a1.json, "id")

\* Both orders happen: a PATCH followed by a web call that is answered, and a
\* creation whose returned id the web call carries.
C17_Witness ==
    /\ request.route = "start"
    /\ request.env.VAPI_ASSISTANT_ID # ""
    /\ Len(calls) = 2 /\ calls[1].method = "PATCH"
    /\ calls[2].body.assistantId = JStr("asst_env")
    /\ response.status = 200

\* The body is a JSON object whose "message", when there, is an object: the
\* shape of the platform's lifecycle events.
IsEvent(raw) ==
    /\ raw.kind = "json" /\ raw.val.t = "dict"
    /\ "message" \in DOMAIN raw.val.v => raw.val.v["message"].t = "dict"

\* C12 (as claimed): every lifecycle event sent to /vapi/webhook, of whatever
\* type and content, an end-of-call-report without or with a null cost or
\* duration included, is answered 200 {received: true}, and the request
\* changes neither token_store nor booked_slots.
C12_WebhookAlwaysAcknowledges ==
    /\ []((request.route = "webhook" /\ IsEvent(request.raw)) => response = WebhookAck)
    /\ [][StepOf("webhook") => UNCHANGED <<token_store, booked_slots>>]_vars

\* The required settings that are empty in the loaded module.
MissingSettings(environ) ==
    {RequiredVars[i][1] : i \in {j \in 1..Len(RequiredVars) : ~Truthy(Setting(environ, j))}}

\* The integer settings are unset or hold a number.
IntSettingsWellFormed(environ) ==
    \A i \in 1..Len(IntSettings) :
        ParseInt(getenv(environ, IntSettings[i][1], JStr(IntSettings[i][2]))).exc = "none"

\* Loading fails exactly when the environment name is production and a
\* required setting is empty, and the failure names exactly the empty ones.
FailsExactlyWhenIncomplete ==
    LET environ == request.environ
    IN  /\ (response.kind = "ValueError")
              <=> (ENVIRONMENT(environ) = "production" /\ MissingSettings(environ) # {})
        /\ response.kind = "ValueError" =>
              Range(response.lines) = {MissingLine(n) : n \in MissingSettings(environ)}

\* C13 (as claimed): loading the configuration fails exactly when the
\* environment name is production and at least one of the seven required
\* settings is empty; the failure names every missing setting and no present
\* one; under any other environment name loading never fails.
C13_FailsExactlyWhenProductionIncomplete ==
    (request.route = "imported") => FailsExactlyWhenIncomplete

\* C13 (amended): the same, for environments whose integer settings
\* (ACCESS_TOKEN_EXPIRE_MINUTES, REFRESH_TOKEN_EXPIRE_DAYS, RATE_LIMIT_CALLS,
\* RATE_LIMIT_PERIOD) are unset or hold integer text.
C13_FailsExactlyWhenProductionIncomplete_Amended ==
    (request.route = "imported" /\ IntSettingsWellFormed(request.environ))
        => FailsExactlyWhenIncomplete

\* A production load with several settings missing has failed, naming them.
C13_Witness ==
    /\ request.route = "imported"
    /\ IntSettingsWellFormed(request.environ)
    /\ ENVIRONMENT(request.environ) = "production"
    /\ Cardinality(MissingSettings(request.environ)) >= 2
    /\ response.kind = "ValueError"
    /\ Len(response.lines) = Cardinality(MissingSettings(request.environ))

\* The correction prompt of a field's category (main.py:439-450).
FieldPrompt(loc) ==
    CASE loc = "email"    -> MsgEmail
      [] loc = "phone"    -> MsgPhone
      [] loc = "date"     -> MsgDate
      [] loc = "time"     -> MsgTime
      [] loc = "timezone" -> MsgTimezone
      [] OTHER            -> MsgInvalidInput

\* AppointmentDetails rejected exactly one field of the last tool request.
SingleFieldFailure ==
    request.route = "book" /\ Len(errors) = 1 /\ errors[1].loc # ""

\* C14 (as claimed): when AppointmentDetails fails on a single field, the
\* tool-call handler answers with the correction prompt of that field's own
\* category (email, phone, date, time, timezone, else the generic prompt).
C14_PromptOfFailedField ==
    SingleFieldFailure =>
        /\ response.status = 200
        /\ response.result.text = FieldPrompt(errors[1].loc)

\* C15: in every run of the tool-call handler the calendar-event creation
\* (credential lookup, provider insert) is attempted only after the five
\* required fields were found present and non-empty and AppointmentDetails
\* was constructed; a run in which validation failed made no calendar call
\* and left token_store and booked_slots as they were.
C15_ValidationBeforeCalendar ==
    [][StepOf("book") =>
         LET attempted == {"get_calendar_service", "events.insert"} \cap Range(calls') # {}
         IN  /\ attempted =>
                   /\ ArgsPassValidation(request'.raw, today)
                   /\ IsPrefix(<<"AppointmentDetails", "get_calendar_service">>, calls')
             /\ errors' # <<>> =>
                   /\ ~attempted
                   /\ UNCHANGED <<token_store, booked_slots>>]_vars

\* A request that AppointmentDetails rejected was handled while a credential
\* and a booked slot were stored, and no calendar call was made.
C15_Witness ==
    /\ SingleFieldFailure
    /\ "default" \in DOMAIN token_store
    /\ Len(booked_slots) >= 1
    /\ calls = <<"AppointmentDetails">>

\* The step is a tool request whose insert the provider failed with an error
\* of the given class whose text holds neither "403" nor "409".
ProviderFailed(class) ==
    /\ StepOf("book")
    /\ request'.outcome.kind = class
    /\ ~request'.outcome.has403 /\ ~request'.outcome.has409

\* C16 (as claimed): a calendar-provider error whose text contains neither
\* "403" nor "409", raised while the tool-call handler is booking, is answered
\* HTTP 200 with the catch-all's generic "Something went wrong on our end.
\* I'll try once more." and booked_slots is unchanged.
C16_OtherProviderErrorGeneric ==
    [][(ProviderFailed("HttpError") \/ ProviderFailed("Other")) =>
         /\ response'.status = 200
         /\ response'.result.text = MsgGeneric
         /\ booked_slots' = booked_slots]_vars

\* C16 (amended): such an HttpError is answered HTTP 200 with the detail of
\* the HTTPException that create_google_calendar_event raises ("Calendar
\* error: ..."), through the handler's HTTPException clause; a provider
\* failure of any other class is answered HTTP 200 with the catch-all's
\* generic message; booked_slots is unchanged in both cases.
C16_OtherProviderErrorGeneric_Amended ==
    [][/\ ProviderFailed("HttpError") =>
            /\ response'.status = 200
            /\ response'.result.text = MsgCalendarError
            /\ booked_slots' = booked_slots
       /\ ProviderFailed("Other") =>
            /\ response'.status = 200
            /\ response'.result.text = MsgGeneric
            /\ booked_slots' = booked_slots]_vars

\* The provider failed an insert with an HttpError that is neither a 403 nor
\* a 409 while a slot was stored, and the caller was told of a calendar error.
C16_Witness ==
    /\ request.route = "book"
    /\ request.outcome = HttpError(FALSE, FALSE)
    /\ response.status = 200
    /\ response.result.text = MsgCalendarError
    /\ Len(booked_slots) >= 1

\* The tool call object at each envelope variant of the body b that carries
\* an identifier.
ToolCallAt(b, variant) ==
    CASE variant = "message"      -> First(Field(Field(b, "message"), "toolCallList"))
      [] variant = "toolCall"     -> Field(b, "toolCall")
      [] variant = "toolCallList" -> First(Field(b, "toolCallList"))

ToolCallVariants == <<"message", "toolCall", "toolCallList">>

\* The variants of b whose tool call carries arguments, in the order
\* message.toolCallList[0], toolCall, toolCallList[0].
VariantsWithArgs(b) ==
    SelectSeq(ToolCallVariants,
              LAMBDA v : ~Empty(Field(Field(ToolCallAt(b, v), "function"), "arguments")))

\* C19 (as claimed): when the arguments acted on come from a tool call of the
\* body, the toolCallId echoed is the identifier of that same tool call:
\* its identifier when it carries one, and never the identifier of another
\* tool call of the body.
C19_IdAndArgsSameEnvelope ==
    (/\ request.route = "book" /\ request.raw.kind = "json"
     /\ response.status = 200
     /\ VariantsWithArgs(request.raw.val) # <<>>) =>
        LET tc == ToolCallAt(request.raw.val, VariantsWithArgs(request.raw.val)[1])
        IN  /\ ~Empty(Field(tc, "id")) => response.toolCallId = Field(tc, "id")
            /\ response.toolCallId # JNone => response.toolCallId = Field(tc, "id")

\* Every handler has returned.
AllDone == \A t \in Tasks : request[t].pc = "done"

\* C18: whatever the interleaving of the handlers at their await points,
\* no append to booked_slots is lost or duplicated (each stored slot is of a
\* distinct created event, and once every handler has returned there is one
\* slot per created event), no booking fails for reading a credential it had
\* found present, and token_store is as the last callback or logout to
\* complete wrote it.
C18_InterleavingsKeepStores ==
    /\ \A i, j \in 1..Len(booked_slots) :
          i # j => booked_slots[i].event_id # booked_slots[j].event_id
    /\ {booked_slots[i].event_id : i \in 1..Len(booked_slots)} \subseteq Range(calls)
    /\ AllDone => /\ Len(booked_slots) = Len(calls)
                  /\ \A t \in Tasks :
                        (request[t].route = "book" /\ response[t].result.text = MsgBooked)
                            => \E i \in 1..Len(booked_slots) :
                                   booked_slots[i].event_id = request[t].inserted
    /\ errors = <<>>
    /\ last_auth \in {"none", "logout"} => token_store = <<>>
    /\ last_auth \in Tokens =>
          token_store = [k \in {"default"} |-> TokenRecord(last_auth)]

\* Two bookings and a logout ran concurrently: one booking was made before
\* the logout completed, the other found the credential gone.
C18_Witness ==
    /\ AllDone
    /\ last_auth = "logout"
    /\ \E t1, t2 \in Tasks :
          /\ request[t1].route = "book" /\ request[t2].route = "book"
          /\ response[t1].result.text = MsgBooked
          /\ response[t2].result.text = MsgNotConnected
    /\ Len(booked_slots) = 1

=============================================================================
